---- MODULE Spec2Model ----
(***************************************************************************)
(* A model of src/index.js, the SpreadTheSign spider: the cache-aware       *)
(* fetcher readSite, the tag normaliser tagify, the two task kinds          *)
(* scrapeCategory and scrapePage, and run(), which drives them through one  *)
(* p-queue instance and awaits queue.onEmpty() between its phases.          *)
(*                                                                         *)
(* JavaScript runs the program on one thread.  A step of the model is one   *)
(* macrotask: the completion of one I/O operation (a cache lookup, an HTTP  *)
(* response, the final file write) together with every continuation that    *)
(* becomes runnable without further I/O (promise reactions run before the   *)
(* next I/O callback).                                                      *)
(*                                                                         *)
(* Strings that the program takes apart (labels, tags) are sequences of     *)
(* one-character strings; URLs are sequences of path segments.              *)
(*                                                                         *)
(* Three things the source leaves to its surroundings are choices of the    *)
(* initial state: what the selectors make of an absent page, what the       *)
(* runtime does with an unhandled rejection, and what the cache holds.      *)
(*                                                                         *)
(* Spec is the spider; FairSpec adds that the event loop never puts a       *)
(* runnable handler off for ever; TagifySpec applies tagify, on its own,    *)
(* to every string of a small alphabet.                                     *)
(***************************************************************************)
EXTENDS Integers, Sequences, FiniteSets, TLC

\* ------------------------------------------------------------------ bounds
MaxConcurrency == 2
MaxCats == 3
MaxNow == 1
CacheDuration == 1
MaxFailures == 1
MaxTagLen == 3

\* ----------------------------------------------------------------- strings
Lower == {"a","b","c","d","e","f","g","h","i","j","k","l","m",
          "n","o","p","q","r","s","t","u","v","w","x","y","z"}
Upper == {"A","B","C","D","E","F","G","H","I","J","K","L","M",
          "N","O","P","Q","R","S","T","U","V","W","X","Y","Z"}
Other == {".", " ", "1", "!"}
Chars == Lower \cup Upper \cup {"_", "-"} \cup Other

\* the characters the class [a-zA-Z_-] of tagify's first pattern accepts
TagChars == Lower \cup Upper \cup {"_", "-"}

LowerOf(c) ==
  CASE c = "A" -> "a" [] c = "B" -> "b" [] c = "C" -> "c" [] c = "D" -> "d"
    [] c = "E" -> "e" [] c = "F" -> "f" [] c = "G" -> "g" [] c = "H" -> "h"
    [] c = "I" -> "i" [] c = "J" -> "j" [] c = "K" -> "k" [] c = "L" -> "l"
    [] c = "M" -> "m" [] c = "N" -> "n" [] c = "O" -> "o" [] c = "P" -> "p"
    [] c = "Q" -> "q" [] c = "R" -> "r" [] c = "S" -> "s" [] c = "T" -> "t"
    [] c = "U" -> "u" [] c = "V" -> "v" [] c = "W" -> "w" [] c = "X" -> "x"
    [] c = "Y" -> "y" [] c = "Z" -> "z" [] OTHER -> c

toLowerCase(s) == [i \in 1..Len(s) |-> LowerOf(s[i])]

RECURSIVE DropRun(_, _)
DropRun(s, cls) ==
  IF s # <<>> /\ Head(s) \in cls THEN DropRun(Tail(s), cls) ELSE s

\* a pattern without its +, doubled instead: /[cls][cls]/g takes the
\* characters of cls two at a time and leaves a single one alone
RECURSIVE ReplaceRuns_Pairs(_, _, _)
ReplaceRuns_Pairs(s, cls, r) ==
  IF s = <<>> THEN <<>>
  ELSE IF Len(s) >= 2 /\ s[1] \in cls /\ s[2] \in cls
       THEN <<r>> \o ReplaceRuns_Pairs(SubSeq(s, 3, Len(s)), cls, r)
       ELSE <<Head(s)>> \o ReplaceRuns_Pairs(Tail(s), cls, r)

\* str.replace(/[cls]+/g, r): every maximal run of characters of cls becomes r
RECURSIVE ReplaceRuns(_, _, _)
ReplaceRuns(s, cls, r) ==
  IF s = <<>> THEN <<>>
  ELSE IF Head(s) \in cls
       THEN <<r>> \o ReplaceRuns(DropRun(Tail(s), cls), cls, r)
       ELSE <<Head(s)>> \o ReplaceRuns(Tail(s), cls, r)

tagify(str) ==
  LET a == ReplaceRuns(str, Chars \ TagChars, ".")
      b == toLowerCase(a)
      c == ReplaceRuns(b, {"."}, ".")
      d == ReplaceRuns(c, {"_"}, "_")
  IN  ReplaceRuns(d, {"-"}, "-")

SpreadTheSign == <<"s","p","r","e","a","d","-","t","h","e","-","s","i","g","n">>

\* -------------------------------------------------------------------- URLs
\* An href is an absolute path or a path relative to the page that holds it.
Abs(p) == [abs |-> TRUE, path |-> p]
Rel(p) == [abs |-> FALSE, path |-> p]
NoLink == [abs |-> FALSE, path |-> <<>>]

RECURSIVE RemoveDots(_, _)
\* the URL parser's handling of "." and ".." segments
RemoveDots(out, segs) ==
  IF segs = <<>> THEN out
  ELSE IF Head(segs) = ".." THEN
         RemoveDots(SubSeq(out, 1, Len(out) - 1), Tail(segs))
  ELSE IF Head(segs) = "." THEN RemoveDots(out, Tail(segs))
  ELSE RemoveDots(Append(out, Head(segs)), Tail(segs))

\* new URL(left, right).toString(): a relative path replaces the last segment
\* of the base
rel(left, right) ==
  RemoveDots(<<>>, IF left.abs THEN left.path
                   ELSE SubSeq(right, 1, Len(right) - 1) \o left.path)

\* the path segments that match /^[0-9]+$/
Numeric == {"0","1","2","3","4","5","6","7","8","9","42"}

RECURSIVE FindNumeric(_)
FindNumeric(segs) ==
  IF segs = <<>> THEN "undefined"
  ELSE IF Head(segs) \in Numeric THEN Head(segs) ELSE FindNumeric(Tail(segs))

\* entryURL.split('/').find(x => x.match(/^[0-9]+$/)), through unslice: a URL
\* with no numeric segment yields the string "undefined"
EntryId(entryURL) == FindNumeric(entryURL)

RECURSIVE includes(_, _)
includes(arr, x) ==
  IF arr = <<>> THEN FALSE
  ELSE IF Head(arr) = x THEN TRUE ELSE includes(Tail(arr), x)

\* ---------------------------------------------------------------- the site
CategoriesURL == <<"en.au", "search", "by-category">>

EmptyDoc ==
  [cats |-> <<>>, results |-> <<>>, next |-> NoLink, title |-> "",
   kind |-> <<>>, videos |-> <<>>, variants |-> <<>>]

SiteCats ==
  << [text |-> <<"A", " ", "b">>,      href |-> Abs(<<"cat", "1">>)],
     [text |-> <<"C", "_", "_", "d">>, href |-> Abs(<<"cat", "2">>)],
     [text |-> <<"a", ".", "b">>,      href |-> Rel(<<"3">>)] >>

E42 == <<"sign", "42", "cat">>
E7  == <<"sign", "7", "dog">>
E7v == <<"sign", "7", "dog-nsw">>
E9  == <<"sign", "9", "emu">>

SiteURLs(n) ==
  {CategoriesURL, <<"cat", "1">>, <<"cat", "1b">>, E42, E7, E7v, E9}
    \cup (IF n >= 2 THEN {<<"cat", "2">>} ELSE {})
    \cup (IF n >= 3 THEN {<<"en.au", "search", "3">>} ELSE {})
    \cup {<<"cat", "x", ToString(k)>> : k \in 4..n}

AllURLs == SiteURLs(MaxCats)

\* The document the site serves at url when it lists n categories.
SitePage(url, n) ==
  CASE url = CategoriesURL ->
         [EmptyDoc EXCEPT !.cats =
            [i \in 1..n |->
               IF i <= 3 THEN SiteCats[i]
               ELSE [text |-> <<"e", "1">>,
                     href |-> Abs(<<"cat", "x", ToString(i)>>)]]]
    [] url = <<"cat", "1">> ->
         [EmptyDoc EXCEPT !.results = <<Abs(E42), Abs(E7), Abs(E42)>>,
                          !.next = Rel(<<"1b">>)]
    [] url = <<"cat", "1b">> ->
         [EmptyDoc EXCEPT !.results = <<Rel(<<"..", "sign", "7", "dog">>), Abs(E9)>>]
    [] url = <<"cat", "2">> ->
         [EmptyDoc EXCEPT !.results = <<Abs(E42)>>]
    [] url = <<"en.au", "search", "3">> ->
         [EmptyDoc EXCEPT !.results = <<Abs(E42)>>]
    [] url = E42 ->
         [EmptyDoc EXCEPT !.title = "Cat", !.kind = <<"N", "o", "u", "n">>,
                          !.videos = <<Abs(<<"v", "42.mp4">>)>>]
    [] url = E7 ->
         [EmptyDoc EXCEPT !.title = "Dog", !.kind = <<"N", "o", "u", "n">>,
                          !.videos = <<Abs(<<"v", "7.mp4">>)>>,
                          !.variants = <<Rel(<<"dog-nsw">>)>>]
    [] url = E7v ->
         [EmptyDoc EXCEPT !.title = "Dog", !.kind = <<"N", "o", "u", "n">>,
                          !.videos = <<Abs(<<"v", "7n.mp4">>)>>]
    [] url = E9 ->
         [EmptyDoc EXCEPT !.title = "Emu", !.kind = <<"N", "o", "u", "n">>]
    [] OTHER -> EmptyDoc

\* ------------------------------------------------------------------- state
VARIABLES
  argv,               \* the options read: concurrency, cacheFolder (set or not)
  env,                \* what run() meets: the number of categories listed,
                      \* what the selectors do with an absent page, and
                      \* what the runtime does with an unhandled rejection
  run,                \* where run() stands: [pc, i]
  categories,         \* the object of line 148, as its entries in key order
  categoryEntryURLs,  \* per category (same order), the accumulator array
  searchData,         \* the dataset: id -> record
  queue,              \* p-queue: the tasks added and not yet started
  tasks,              \* every task ever added, by task number
  pendingCount,       \* p-queue: the tasks started and not yet finished
  written,            \* what was handed to fs.writeJson, or NotWritten
  cache,              \* the cache folder: url -> modification time
  now,                \* the clock, as last observed
  gets,               \* the GET requests issued so far: [url, by] -> count
  lastCall,           \* the readSite call that returned last
  failures,           \* fetches and cache writes that have failed so far
  seen,               \* per category, every result URL in the order processed
  exited,             \* the runtime has ended the process
  steps,              \* the handlers the event loop has run so far
  tag                 \* a string given to tagify, and what tagify made of it

vars == <<argv, env, run, categories, categoryEntryURLs, searchData, queue,
          tasks, pendingCount, written, cache, now, gets, lastCall, failures,
          seen, exited, steps, tag>>

\* everything but the string under tagify
progVars == <<argv, env, run, categories, categoryEntryURLs, searchData, queue,
              tasks, pendingCount, written, cache, now, gets, lastCall,
              failures, seen, exited, steps>>

NoTag == [in |-> <<>>, once |-> <<>>, twice |-> <<>>, n |-> 0]

NoData == [id \in {} |-> EmptyDoc]
NotWritten == [called |-> FALSE, data |-> NoData]
NoCall ==
  [url |-> <<>>, gets |-> 0, wrote |-> 0, hit |-> FALSE, ok |-> FALSE,
   threw |-> FALSE]

\* What a readSite call gives its caller: a document, undefined, or an error.
Ok(doc) == [status |-> "ok", doc |-> doc]
Absent == [status |-> "absent", doc |-> EmptyDoc]
Thrown == [status |-> "thrown", doc |-> EmptyDoc]

RunWaits == {"phase1wait", "phase2wait", "finalwait"}

\* The program state a handler reads and writes, as one record.
Cur ==
  [queue |-> queue, tasks |-> tasks, pendingCount |-> pendingCount,
   run |-> run, categories |-> categories,
   categoryEntryURLs |-> categoryEntryURLs, searchData |-> searchData,
   written |-> written, gets |-> gets, seen |-> seen, exited |-> exited,
   wake |-> FALSE]

Commit(b) ==
  /\ queue' = b.queue
  /\ tasks' = b.tasks
  /\ pendingCount' = b.pendingCount
  /\ run' = b.run
  /\ categories' = b.categories
  /\ categoryEntryURLs' = b.categoryEntryURLs
  /\ searchData' = b.searchData
  /\ written' = b.written
  /\ gets' = b.gets
  /\ seen' = b.seen
  /\ exited' = b.exited

BagAdd(bag, x) ==
  IF x \in DOMAIN bag THEN [bag EXCEPT ![x] = @ + 1]
  ELSE [y \in DOMAIN bag \cup {x} |-> IF y = x THEN 1 ELSE bag[y]]

\* ---------------------------------------------------------------- readSite
\* a cache that also takes a file exactly one ttl old as fresh
IsFresh_Inclusive(mtime, t, ttl) == mtime >= t - ttl

\* mtimeMs > Date.now() - parseDuration(argv.cacheDuration)
IsFresh(mtime, t, ttl) == mtime > t - ttl

\* fs.pathExists(cacheFilename) and the freshness test of line 56
CacheIsFresh(url, t) ==
  /\ url \in DOMAIN cache
  /\ IsFresh(cache[url], t, CacheDuration)

\* a fetcher that caches the body of any response, whatever its status
ShouldWriteCache_AnyStatus(ok) == argv.cacheFolder

\* if (response.ok) ... if (argv.cacheFolder) ... writeFile
ShouldWriteCache(ok) == ok /\ argv.cacheFolder

\* The caller's record: run() is caller 0, task n is caller n.
Caller(b, who) == IF who = 0 THEN b.run ELSE b.tasks[who]

SetCaller(b, who, r) ==
  IF who = 0 THEN [b EXCEPT !.run = r] ELSE [b EXCEPT !.tasks[who] = r]

ByOf(b, who) == IF who = 0 THEN "run" ELSE b.tasks[who].kind

\* line 61: fetch(`${url}`)
IssueGet(b, who) ==
  LET r == Caller(b, who)
      b1 == SetCaller(b, who,
              [r EXCEPT !.st = "fetch", !.call.gets = @ + 1])
  IN  [b1 EXCEPT !.gets = BagAdd(@, [url |-> r.call.url, by |-> ByOf(b, who)])]

\* readSite(url) up to its first suspension: the cache lookup when a cache
\* folder is configured, the GET otherwise
BeginReadSite(b, who, url) ==
  LET r == Caller(b, who)
      b1 == SetCaller(b, who,
              [r EXCEPT !.st = "check", !.call = [NoCall EXCEPT !.url = url]])
  IN  IF argv.cacheFolder THEN b1 ELSE IssueGet(b1, who)

\* ----------------------------------------------------------------- p-queue
\* a queue that starts one task more than the concurrency allows
DoesConcurrentAllowAnother_OffByOne(b) == b.pendingCount <= argv.concurrency

\* get _doesConcurrentAllowAnother: pendingCount < concurrency
DoesConcurrentAllowAnother(b) == b.pendingCount < argv.concurrency

\* the 'empty' event: a run() suspended in onEmpty() becomes runnable
ResolveEmpty(b) ==
  IF b.run.pc \in RunWaits THEN [b EXCEPT !.wake = TRUE] ELSE b

\* job(): pendingCount++ and fn() up to its first suspension; both task kinds
\* begin with readSite of their URL
StartJob(b, tid) ==
  BeginReadSite([b EXCEPT !.pendingCount = @ + 1], tid, b.tasks[tid].target)

tryToStartAnother(b) ==
  IF Len(b.queue) = 0 THEN ResolveEmpty(b)
  ELSE IF DoesConcurrentAllowAnother(b)
       THEN StartJob([b EXCEPT !.queue = Tail(@)], Head(b.queue))
       ELSE b

\* queue.add(fn): enqueue, then try to start
add(b, task) ==
  LET tid == Len(b.tasks) + 1
  IN  tryToStartAnother(
        [b EXCEPT !.tasks = Append(@, task), !.queue = Append(@, tid)])

\* _next(), which runs when a task's promise settles
next(b) == tryToStartAnother([b EXCEPT !.pendingCount = @ - 1])

NewTask(kind, category, target) ==
  [kind |-> kind, st |-> "queued", category |-> category, target |-> target,
   stage |-> "primary", call |-> NoCall, media |-> <<>>, variants |-> <<>>,
   title |-> "", tkind |-> <<>>]

\* A promise rejected with no handler attached: the runtime warns and goes on,
\* or ends the process once the handler under way and its reactions are over.
Unhandled(b) == [b EXCEPT !.exited = @ \/ env.rejections = "exit"]

\* the settling of a task's promise: resolve or reject, then _next().  Nothing
\* handles the promise add() returns.
Settle(b, tid, st) ==
  LET b1 == next([b EXCEPT !.tasks[tid].st = st])
  IN  IF st = "failed" THEN Unhandled(b1) ELSE b1

\* ----------------------------------------------------------- scrapeCategory
\* a crawler that pushes every result URL without the membership test
AppendResult_NoCheck(entryURLs, resultURL) == Append(entryURLs, resultURL)

\* lines 165-167: push the URL unless the accumulator includes it
AppendResult(entryURLs, resultURL) ==
  IF ~includes(entryURLs, resultURL) THEN Append(entryURLs, resultURL)
  ELSE entryURLs

RECURSIVE AppendResults(_, _, _)
AppendResults(entryURLs, links, pageURL) ==
  IF links = <<>> THEN entryURLs
  ELSE AppendResults(AppendResult(entryURLs, rel(Head(links), pageURL)),
                     Tail(links), pageURL)

\* a crawler that never follows the next-page link
NextPageTasks_Never(page, category, pageURL) == <<>>

\* a crawler that adds the next-page task inside the loop over the result
\* links, once for each of them
NextPageTasks_PerResult(page, category, pageURL) ==
  IF page.next # NoLink
  THEN [i \in 1..Len(page.results) |->
          NewTask("category", category, rel(page.next, pageURL))]
  ELSE <<>>

\* lines 171-175: the tasks scrapeCategory adds once its loop is over, one
\* for the next page if the page links to one
NextPageTasks(page, category, pageURL) ==
  IF page.next # NoLink
  THEN <<NewTask("category", category, rel(page.next, pageURL))>>
  ELSE <<>>

RECURSIVE AddAll(_, _)
AddAll(b, ts) ==
  IF ts = <<>> THEN b ELSE AddAll(add(b, Head(ts)), Tail(ts))

\* scrapeCategory from the return of readSite(pageURL) to its end
ScrapeCategory(b, tid, res) ==
  LET t == b.tasks[tid]
      page == res.doc
      b1 == [b EXCEPT
               !.categoryEntryURLs[t.category] =
                  AppendResults(@, page.results, t.target),
               !.seen[t.category] =
                  @ \o [i \in 1..Len(page.results) |->
                          rel(page.results[i], t.target)]]
      b2 == AddAll(b1, NextPageTasks(page, t.category, t.target))
  IN  IF res.status = "thrown" THEN Settle(b, tid, "failed")
      ELSE IF res.status = "absent" /\ env.selectAbsent = "throws"
           THEN Settle(b, tid, "failed")
           ELSE Settle(b2, tid, "done")

\* --------------------------------------------------------------- scrapePage
RECURSIVE Dedup(_)
\* [...new Set(arr)]: the first occurrence of each element, in order
Dedup(arr) ==
  IF arr = <<>> THEN <<>>
  ELSE LET init == Dedup(SubSeq(arr, 1, Len(arr) - 1))
           x == arr[Len(arr)]
       IN  IF includes(init, x) THEN init ELSE Append(init, x)

\* ['spread-the-sign', kind, category].map(tagify)
NewTags(kind, category) ==
  <<tagify(SpreadTheSign), tagify(kind), tagify(category)>>

\* a merge that starts from no tags whatever the dataset holds
ExistingTags_Forgotten(sd, id) == <<>>

\* searchData[id] || { tags: [] }
ExistingTags(sd, id) == IF id \in DOMAIN sd THEN sd[id].tags ELSE <<>>

\* a writer that replaces the record's tags by the task's own
MergeTags_Overwrite(fresh, existing) == Dedup(fresh)

\* a merge that concatenates without passing through a Set
MergeTags_NoSet(fresh, existing) == fresh \o existing

\* line 122
MergeTags(fresh, existing) == Dedup(fresh \o existing)

\* an extractor without the skip rule
HasMedia_Always(media) == TRUE

\* line 111
HasMedia(media) == Len(media) > 0

Put(sd, id, rec) ==
  [x \in DOMAIN sd \cup {id} |-> IF x = id THEN rec ELSE sd[x]]

\* lines 111-133, then the task's promise resolves
FinishPage(b, tid) ==
  LET t == b.tasks[tid]
      id == EntryId(t.target)
      rec == [title |-> t.title,
              nav |-> b.categories[t.category].label,
              tags |-> MergeTags(NewTags(t.tkind, b.categories[t.category].label),
                                 ExistingTags(b.searchData, id)),
              media |-> t.media]
      b1 == IF HasMedia(t.media)
            THEN [b EXCEPT !.searchData = Put(@, id, rec)]
            ELSE b
  IN  Settle(b1, tid, "done")

Videos(page, entryURL) ==
  [i \in 1..Len(page.videos) |-> rel(page.videos[i], entryURL)]

\* the loop of lines 100-108 at its next variant link, or past its end
NextVariant(b, tid) ==
  LET t == b.tasks[tid]
  IN  IF t.variants = <<>> THEN FinishPage(b, tid)
      ELSE BeginReadSite(
             [b EXCEPT !.tasks[tid].stage = "variant",
                       !.tasks[tid].variants = Tail(@)],
             tid, Head(t.variants))

\* scrapePage from the return of a readSite to its next suspension or its end
ScrapePage(b, tid, res) ==
  LET t == b.tasks[tid]
      page == res.doc
      primary ==
        [b EXCEPT !.tasks[tid].title = page.title,
                  !.tasks[tid].tkind = page.kind,
                  !.tasks[tid].media = Videos(page, t.target),
                  !.tasks[tid].variants =
                     [i \in 1..Len(page.variants) |->
                        rel(page.variants[i], t.target)]]
      variant ==
        [b EXCEPT !.tasks[tid].media = @ \o Videos(page, t.target)]
  IN  IF res.status = "thrown" THEN Settle(b, tid, "failed")
      ELSE IF res.status = "absent" /\ env.selectAbsent = "throws"
           THEN Settle(b, tid, "failed")
           ELSE NextVariant(IF t.stage = "primary" THEN primary ELSE variant,
                            tid)

\* -------------------------------------------------------------------- run()
RECURSIVE FromEntries(_)
\* Object.fromEntries: a repeated key keeps its place and takes the later value
FromEntries(pairs) ==
  IF pairs = <<>> THEN <<>>
  ELSE LET init == FromEntries(SubSeq(pairs, 1, Len(pairs) - 1))
           p == pairs[Len(pairs)]
           at == {j \in 1..Len(init) : init[j].label = p.label}
       IN  IF at = {} THEN Append(init, p)
           ELSE [j \in 1..Len(init) |-> IF j \in at THEN p ELSE init[j]]

\* lines 204-206: the dataset is serialised when writeJson is called
WriteJson(b) ==
  [b EXCEPT !.written = [called |-> TRUE, data |-> b.searchData],
            !.run.pc = "writing"]

\* await queue.onEmpty(): returns at once when nothing is queued
OnEmptyReturns(b) == Len(b.queue) = 0

\* line 202
FinalBarrier(b) ==
  IF OnEmptyReturns(b) THEN WriteJson(b)
  ELSE [b EXCEPT !.run.pc = "finalwait"]

RECURSIVE AddPages(_, _, _)
\* lines 195-197
AddPages(b, category, entries) ==
  IF entries = <<>> THEN b
  ELSE AddPages(add(b, NewTask("page", category, Head(entries))),
                category, Tail(entries))

RECURSIVE Phase2(_, _)
\* the loop of lines 193-200 from category number i on
Phase2(b, i) ==
  IF i > Len(b.categoryEntryURLs) THEN FinalBarrier(b)
  ELSE LET b1 == AddPages(b, i, b.categoryEntryURLs[i])
       IN  IF OnEmptyReturns(b1) THEN Phase2(b1, i + 1)
           ELSE [b1 EXCEPT !.run.pc = "phase2wait", !.run.i = i]

\* line 189
Phase1Barrier(b) ==
  IF OnEmptyReturns(b) THEN Phase2(b, 1)
  ELSE [b EXCEPT !.run.pc = "phase1wait"]

RECURSIVE AddCategories(_, _)
\* lines 180-187
AddCategories(b, i) ==
  IF i > Len(b.categories) THEN b
  ELSE AddCategories(
         add([b EXCEPT !.categoryEntryURLs = Append(@, <<>>),
                       !.seen = Append(@, <<>>)],
             NewTask("category", i, b.categories[i].url)),
         i + 1)

\* a run() that goes on with whatever readSite gave, a document or not
IndexMissing_Unchecked(res) == res.status = "thrown"

\* line 145: if (!categoriesPage) throw; an error thrown by readSite is not
\* caught either
IndexMissing(res) == res.status # "ok"

\* run() from the return of readSite(categoriesURL) to its next suspension
RunAfterIndex(b, res) ==
  LET links == res.doc.cats
      cats == FromEntries([i \in 1..Len(links) |->
                [label |-> links[i].text,
                 url |-> rel(links[i].href, CategoriesURL)]])
      b1 == [b EXCEPT !.categories = cats, !.run.st = ""]
  IN  IF IndexMissing(res)
      THEN Unhandled([b EXCEPT !.run.pc = "failed", !.run.st = ""])
      ELSE Phase1Barrier(AddCategories(b1, 1))

\* run() resumed by the 'empty' event
Resume(b) ==
  CASE b.run.pc = "phase1wait" -> Phase2(b, 1)
    [] b.run.pc = "phase2wait" -> Phase2(b, b.run.i + 1)
    [] b.run.pc = "finalwait" -> WriteJson(b)
    [] OTHER -> b

\* the promise reactions that follow a handler
Drain(b) == IF b.wake THEN Resume([b EXCEPT !.wake = FALSE]) ELSE b

\* the caller of readSite continues with its result
Continue(b, who, res) ==
  Drain(IF who = 0 THEN RunAfterIndex(b, res)
        ELSE IF b.tasks[who].kind = "category" THEN ScrapeCategory(b, who, res)
        ELSE ScrapePage(b, who, res))

\* ----------------------------------------------------------- specification
\* The cache folder as run() finds it: empty, or holding every page of the
\* site as written at time 0.
InitialCaches ==
  {[u \in {} |-> 0], [u \in SiteURLs(MaxCats) |-> 0]}

\* The state when run(), called at line 209, first suspends: inside
\* readSite(categoriesURL).
Blank ==
  [queue |-> <<>>, tasks |-> <<>>, pendingCount |-> 0,
   run |-> [pc |-> "index", i |-> 0, st |-> "", call |-> NoCall],
   categories |-> <<>>, categoryEntryURLs |-> <<>>, searchData |-> NoData,
   written |-> NotWritten, gets |-> [x \in {} |-> 0], seen |-> <<>>,
   exited |-> FALSE, wake |-> FALSE]

\* The options explored: any concurrency without a cache folder, and one
\* request at a time with one.
Options ==
  [concurrency : 1..MaxConcurrency, cacheFolder : {FALSE}]
    \cup [concurrency : {1}, cacheFolder : {TRUE}]

StartsAs(b) ==
  /\ queue = b.queue
  /\ tasks = b.tasks
  /\ pendingCount = b.pendingCount
  /\ run = b.run
  /\ categories = b.categories
  /\ categoryEntryURLs = b.categoryEntryURLs
  /\ searchData = b.searchData
  /\ written = b.written
  /\ gets = b.gets
  /\ seen = b.seen
  /\ exited = b.exited

Init ==
  /\ argv \in Options
  /\ env \in [nCats : 1..MaxCats, selectAbsent : {"throws", "empty"},
              rejections : {"warn", "exit"}]
  /\ cache \in (IF argv.cacheFolder THEN InitialCaches ELSE {[u \in {} |-> 0]})
  /\ now = 0
  /\ lastCall = NoCall
  /\ failures = 0
  /\ StartsAs(BeginReadSite(Blank, 0, CategoriesURL))
  /\ steps = 0
  /\ tag = NoTag

Callers == 0..Len(tasks)

\* the cache lookup of lines 55-58 finds a fresh file: readSite returns it
CacheHit(who) ==
  LET r == Caller(Cur, who)
  IN  /\ ~exited
      /\ r.st = "check"
      /\ \E t \in now..MaxNow :
           /\ CacheIsFresh(r.call.url, t)
           /\ now' = t
           /\ lastCall' = [r.call EXCEPT !.hit = TRUE, !.ok = TRUE]
           /\ Commit(Continue(Cur, who, Ok(SitePage(r.call.url, env.nCats))))
      /\ steps' = steps + 1
      /\ UNCHANGED <<tag, argv, env, cache, failures>>

\* the cache lookup finds no file or a stale one: line 61 issues the GET
CacheMiss(who) ==
  LET r == Caller(Cur, who)
  IN  /\ ~exited
      /\ r.st = "check"
      /\ \E t \in now..MaxNow :
           /\ r.call.url \notin DOMAIN cache => t = now
           /\ ~CacheIsFresh(r.call.url, t)
           /\ now' = t
           /\ Commit(IssueGet(Cur, who))
      /\ steps' = steps + 1
      /\ UNCHANGED <<tag, argv, env, cache, failures, lastCall>>

\* lines 62-70 for a response with the given response.ok
Respond(who, ok) ==
  LET r == Caller(Cur, who)
      wr == ShouldWriteCache(ok)
  IN  /\ ~exited
      /\ r.st = "fetch"
      /\ \E t \in now..MaxNow :
           /\ ~wr => t = now
           /\ now' = t
           /\ cache' = IF wr
                       THEN [u \in DOMAIN cache \cup {r.call.url} |->
                               IF u = r.call.url THEN t ELSE cache[u]]
                       ELSE cache
      /\ lastCall' = [r.call EXCEPT !.ok = ok,
                                    !.wrote = IF wr THEN @ + 1 ELSE @]
      /\ Commit(Continue(Cur, who,
                  IF ok THEN Ok(SitePage(r.call.url, env.nCats)) ELSE Absent))
      /\ steps' = steps + 1
      /\ UNCHANGED <<tag, argv, env>>

FetchOk(who) == Respond(who, TRUE) /\ UNCHANGED failures

FetchNotOk(who) ==
  /\ failures < MaxFailures
  /\ failures' = failures + 1
  /\ Respond(who, FALSE)

\* the response is a success and ensureDir or writeFile rejects: readSite
\* throws to its caller
CacheWriteFails(who) ==
  LET r == Caller(Cur, who)
  IN  /\ ~exited
      /\ r.st = "fetch"
      /\ argv.cacheFolder
      /\ failures < MaxFailures
      /\ failures' = failures + 1
      /\ lastCall' = [r.call EXCEPT !.ok = TRUE, !.threw = TRUE]
      /\ Commit(Continue(Cur, who, Thrown))
      /\ steps' = steps + 1
      /\ UNCHANGED <<tag, argv, env, cache, now>>

\* line 61: fetch rejects (no connection, no such host): readSite throws to
\* its caller
FetchRejects(who) ==
  LET r == Caller(Cur, who)
  IN  /\ ~exited
      /\ r.st = "fetch"
      /\ failures < MaxFailures
      /\ failures' = failures + 1
      /\ lastCall' = [r.call EXCEPT !.threw = TRUE]
      /\ Commit(Continue(Cur, who, Thrown))
      /\ steps' = steps + 1
      /\ UNCHANGED <<tag, argv, env, cache, now>>

\* fs.writeJson completes and run() returns
WriteDone ==
  /\ ~exited
  /\ run.pc = "writing"
  /\ run' = [run EXCEPT !.pc = "done"]
  /\ steps' = steps + 1
  /\ UNCHANGED <<tag, argv, env, categories, categoryEntryURLs, searchData, queue,
                 tasks, pendingCount, written, cache, now, gets, lastCall,
                 failures, seen, exited>>

Next ==
  \/ \E who \in Callers : CacheHit(who)
  \/ \E who \in Callers : CacheMiss(who)
  \/ \E who \in Callers : FetchOk(who)
  \/ \E who \in Callers : FetchNotOk(who)
  \/ \E who \in Callers : CacheWriteFails(who)
  \/ \E who \in Callers : FetchRejects(who)
  \/ WriteDone

Spec == Init /\ [][Next]_vars

\* ------------------------------------------------------------------ claims
Range(f) == {f[i] : i \in DOMAIN f}
NoDup(arr) == \A j, k \in 1..Len(arr) : j # k => arr[j] # arr[k]
FirstIndex(arr, x) == CHOOSE j \in 1..Len(arr) :
                        arr[j] = x /\ \A k \in 1..(j - 1) : arr[k] # x
Running == {"check", "fetch"}
Finished == {"done", "failed"}
TasksOf(kind) == {t \in 1..Len(tasks) : tasks[t].kind = kind}

\* What the site lists, read off its pages.
RECURSIVE ChainResults(_, _, _)
ChainResults(url, n, fuel) ==
  LET page == SitePage(url, n)
      here == {rel(page.results[i], url) : i \in 1..Len(page.results)}
  IN  IF page.next = NoLink \/ fuel = 0 THEN here
      ELSE here \cup ChainResults(rel(page.next, url), n, fuel - 1)

SiteLabels(n) ==
  {[label |-> SitePage(CategoriesURL, n).cats[i].text,
    url |-> rel(SitePage(CategoriesURL, n).cats[i].href, CategoriesURL)] :
     i \in 1..n}

EntryHasVideo(entryURL, n) ==
  LET page == SitePage(entryURL, n)
  IN  \/ page.videos # <<>>
      \/ \E i \in 1..Len(page.variants) :
           SitePage(rel(page.variants[i], entryURL), n).videos # <<>>

ExpectedIds(n) ==
  {EntryId(u) : u \in {v \in UNION {ChainResults(c.url, n, Cardinality(AllURLs)) :
                                      c \in SiteLabels(n)} :
                         EntryHasVideo(v, n)}}

ExpectedTags(id, n) ==
  {tagify(c.label) :
     c \in {d \in SiteLabels(n) :
              \E u \in ChainResults(d.url, n, Cardinality(AllURLs)) :
                 EntryId(u) = id}}

\* C1: no scrapePage task is added or started before every scrapeCategory
\* task, the dynamically added next-page tasks included, has completed:
\* whenever an extraction task exists, every pagination task has finished.
\* Stated for the runs in which nothing has failed, so that a violation owes
\* nothing to a failed fetch.
C1_ExtractionAfterPagination ==
  (TasksOf("page") # {} /\ failures = 0) =>
    \A t \in TasksOf("category") : tasks[t].st \in Finished

\* C2: the dataset is handed to fs.writeJson only after every extraction task
\* that was added has completed: once the write is called, no scrapePage task
\* is queued or running.  Stated for the runs in which nothing has failed.
C2_WriteAfterExtraction ==
  (written.called /\ failures = 0) =>
    \A t \in TasksOf("page") : tasks[t].st \in Finished

\* C3: when no fetch fails, the dataset that is persisted holds a record for
\* every id that some category page lists and whose pages carry a video, and
\* the record's tags hold the normalised label of every category listing it.
C3_PersistedDatasetComplete ==
  (written.called /\ failures = 0) =>
    \A id \in ExpectedIds(env.nCats) :
       /\ id \in DOMAIN written.data
       /\ ExpectedTags(id, env.nCats) \subseteq Range(written.data[id].tags)

\* C4: at every moment the tasks that have started and not finished number at
\* most the configured concurrency, the next-page tasks added from within a
\* running task included.
C4_ConcurrencyBound ==
  /\ Cardinality({t \in 1..Len(tasks) : tasks[t].st \in Running})
       <= argv.concurrency
  /\ pendingCount <= argv.concurrency

\* C4 witness: the pool is full while a next-page task added by a running
\* pagination task waits in the queue.
C4_Witness ==
  /\ Cardinality({t \in 1..Len(tasks) : tasks[t].st \in Running})
       = argv.concurrency
  /\ \E j \in 1..Len(queue) : tasks[queue[j]].target = <<"cat", "1b">>

\* C5: each category's accumulator holds no URL twice, holds exactly the URLs
\* seen on the category's pages, and orders them by first appearance.
C5_AccumulatorFirstSeen ==
  \A i \in 1..Len(categoryEntryURLs) :
     LET acc == categoryEntryURLs[i]
     IN  /\ NoDup(acc)
         /\ Range(acc) = Range(seen[i])
         /\ \A j, k \in 1..Len(acc) :
              j < k => FirstIndex(seen[i], acc[j]) < FirstIndex(seen[i], acc[k])

\* C5 witness: a category whose pages repeated a URL, on the same page and on
\* a later page, after both pages were processed.
C5_Witness ==
  \E i \in 1..Len(categoryEntryURLs) :
     /\ Len(seen[i]) = 5
     /\ Len(categoryEntryURLs[i]) = 3

\* C6: in every step each id of the dataset stays in it and its tag set after
\* the step is a superset of its tag set before.
C6_TagsNeverShrink ==
  [][\A id \in DOMAIN searchData :
       /\ id \in DOMAIN searchData'
       /\ Range(searchData[id].tags) \subseteq Range(searchData'[id].tags)]_vars

\* C6 witness: id 42 was written by extractions from two categories and its
\* tags hold both labels.
C6_Witness ==
  /\ "42" \in DOMAIN searchData
  /\ {<<"a", ".", "b">>, <<"c", "_", "d">>} \subseteq Range(searchData["42"].tags)

\* C7: when an extraction with non-empty media writes an id that already has
\* a record, the new tags are exactly the union of the prior tags and the
\* normalised spread-the-sign, kind and category, each once.
C7_MergeIsUnion ==
  [][\A t \in TasksOf("page") :
       LET id == EntryId(tasks[t].target)
       IN  (/\ tasks[t].st \in Running
            /\ tasks'[t].st = "done"
            /\ tasks'[t].media # <<>>
            /\ id \in DOMAIN searchData)
           => /\ Range(searchData'[id].tags) =
                   Range(searchData[id].tags) \cup
                     {tagify(SpreadTheSign),
                      tagify(SitePage(tasks[t].target, env.nCats).kind),
                      tagify(categories[tasks[t].category].label)}
              /\ NoDup(searchData'[id].tags)]_vars

\* C7 witness: two finished extractions with media wrote the same id, the
\* second under a category whose tag the first did not have.
C7_Witness ==
  \E t1, t2 \in TasksOf("page") :
     /\ t1 # t2
     /\ tasks[t1].st = "done" /\ tasks[t2].st = "done"
     /\ tasks[t1].media # <<>> /\ tasks[t2].media # <<>>
     /\ EntryId(tasks[t1].target) = EntryId(tasks[t2].target)
     /\ tagify(categories[tasks[t1].category].label)
          # tagify(categories[tasks[t2].category].label)

\* C8: every record of the dataset has a non-empty media sequence, and an id
\* is in the dataset only if a finished extraction of it had media.
C8_NoRecordWithoutMedia ==
  \A id \in DOMAIN searchData :
     /\ searchData[id].media # <<>>
     /\ \E t \in TasksOf("page") :
          /\ EntryId(tasks[t].target) = id
          /\ tasks[t].st = "done"
          /\ tasks[t].media # <<>>

\* C8 witness: an extraction whose primary page had no video and no variant
\* finished, and an extraction that found its only video on a variant page
\* wrote a record.
C8_Witness ==
  /\ \E t \in TasksOf("page") :
       tasks[t].st = "done" /\ tasks[t].media = <<>>
  /\ "7" \in DOMAIN searchData

\* C9: with a cache file present, a lookup at time now' finds the file stale
\* and issues the GET when its modification time equals now' - ttl, and
\* returns the cached content when it is now' - ttl + 1 or later.
C9_FreshnessBoundary ==
  [][\A who \in Callers :
       LET r == Caller(Cur, who)
           url == r.call.url
           after == IF who = 0 THEN run' ELSE tasks'[who]
       IN  (r.st = "check" /\ after # r /\ url \in DOMAIN cache)
           => /\ cache[url] = now' - CacheDuration
                 => /\ after.st = "fetch"
                    /\ after.call = [r.call EXCEPT !.gets = 1]
                    /\ lastCall' = lastCall
              /\ cache[url] >= now' - CacheDuration + 1
                 => /\ lastCall' = [r.call EXCEPT !.hit = TRUE, !.ok = TRUE]
                    /\ gets' = gets]_vars

\* C9 witness: a GET is in flight for a URL whose cache file was written
\* exactly one ttl before the lookup.
C9_Witness ==
  /\ run.st = "fetch"
  /\ run.call.url \in DOMAIN cache
  /\ cache[run.call.url] = now - CacheDuration

\* C10: a readSite call that returned from a fresh cache file issued no GET
\* and wrote no file; any other call issued exactly one GET and wrote the
\* cache file at most once, and only with a cache folder and a success.
C10_FetchAndCacheWrites ==
  lastCall # NoCall =>
    /\ lastCall.hit => lastCall.gets = 0 /\ lastCall.wrote = 0
    /\ ~lastCall.hit =>
         /\ lastCall.gets = 1
         /\ lastCall.wrote <= 1
         /\ lastCall.wrote = 1 => argv.cacheFolder /\ lastCall.ok

\* C10 witness: under a cache folder, the category index came from a fresh
\* file without any GET, and the call that returned last found a stale file,
\* issued its GET, met a failed response and wrote nothing.
C10_Witness ==
  /\ argv.cacheFolder
  /\ Len(tasks) > 0
  /\ [url |-> CategoriesURL, by |-> "run"] \notin DOMAIN gets
  /\ lastCall.url \in DOMAIN cache
  /\ ~lastCall.hit /\ ~lastCall.ok /\ ~lastCall.threw
  /\ lastCall.gets = 1 /\ lastCall.wrote = 0

\* The GET of the category index, the only request run() itself issues.
IndexGet == [url |-> CategoriesURL, by |-> "run"]

\* C11: when readSite gives run() no document for the category index, run()
\* fails before it creates the queue: no task is ever added, no request but
\* the one for the index is ever issued, and nothing is handed to writeJson.
C11_IndexAbsentIsFatal ==
  (lastCall.url = CategoriesURL /\ ~lastCall.ok /\ ~lastCall.threw) =>
    /\ run.pc = "failed"
    /\ tasks = <<>> /\ queue = <<>> /\ pendingCount = 0
    /\ DOMAIN gets = {IndexGet} /\ gets[IndexGet] = 1
    /\ ~written.called

\* C11 witness: the index was asked for once over the network, the response
\* was not a success, and run() has failed.
C11_Witness ==
  /\ run.pc = "failed"
  /\ lastCall.url = CategoriesURL
  /\ lastCall.gets = 1 /\ ~lastCall.ok /\ ~lastCall.threw

\* A request or a file operation is outstanding and the process is alive:
\* the condition under which Next can take a step.
Pending ==
  /\ ~exited
  /\ \/ run.st \in Running
     \/ run.pc = "writing"
     \/ \E t \in 1..Len(tasks) : tasks[t].st \in Running

\* Some handler runs.  Every step of Next counts one more handler, so this is
\* a step of Next seen on the counter alone.
Tick == Pending /\ steps' = steps + 1

\* Every request and file operation completes, and the event loop runs the
\* callback of each one that has: no step that can be taken is put off for
\* ever.  Weak fairness of Next, stated on the counter.
FairSpec == Init /\ [][Next]_vars /\ WF_steps(Tick)

SomeTaskFailed == \E t \in 1..Len(tasks) : tasks[t].st = "failed"

\* C12: the failure of one task neither cancels nor prevents any other: once
\* a task has failed, every task added still comes to its end and run() still
\* reaches the call of writeJson.
C12_FailureIsIsolated ==
  SomeTaskFailed ~>
    (written.called /\ \A t \in 1..Len(tasks) : tasks[t].st \in Finished)

\* In this step task t, waiting on a GET, is given no document by readSite:
\* the response was not a success.
AbsentReturnedTo(t) ==
  /\ tasks[t].st = "fetch"
  /\ tasks'[t] # tasks[t]
  /\ lastCall'.url = tasks[t].call.url
  /\ ~lastCall'.ok /\ ~lastCall'.threw /\ ~lastCall'.hit

C15_CacheWriteFailureTolerated ==
  (lastCall.ok /\ ~lastCall.hit) => ~lastCall.threw

\* ------------------------------------------------- tagify on its own
\* The characters the strings given to tagify are made of: a letter of each
\* case, the three separators the patterns name, and a character of neither
\* kind.
TagAlphabet == {"a", "B", ".", "_", "-", " "}

RECURSIVE StringsUpTo(_)
StringsUpTo(n) ==
  IF n = 0 THEN {<<>>}
  ELSE LET shorter == StringsUpTo(n - 1)
       IN  shorter \cup {Append(s, c) : s \in shorter, c \in TagAlphabet}

\* tagify is about to be called on some string; the spider itself is not
\* running.
TagifyInit ==
  /\ tag \in {[NoTag EXCEPT !.in = s] : s \in StringsUpTo(MaxTagLen)}
  /\ argv = [concurrency |-> 1, cacheFolder |-> FALSE]
  /\ env = [nCats |-> 1, selectAbsent |-> "throws", rejections |-> "warn"]
  /\ cache = [u \in {} |-> 0]
  /\ now = 0
  /\ lastCall = NoCall
  /\ failures = 0
  /\ StartsAs(Blank)
  /\ steps = 0

\* tagify(str)
TagifyOnce ==
  /\ tag.n = 0
  /\ tag' = [tag EXCEPT !.once = tagify(tag.in), !.n = 1]
  /\ UNCHANGED progVars

\* tagify(tagify(str))
TagifyTwice ==
  /\ tag.n = 1
  /\ tag' = [tag EXCEPT !.twice = tagify(tag.once), !.n = 2]
  /\ UNCHANGED progVars

TagifyNext == TagifyOnce \/ TagifyTwice

TagifySpec == TagifyInit /\ [][TagifyNext]_vars

\* C16: tagify is idempotent: for every string of the alphabet, applying it to
\* its own result gives that result again.
C16_TagifyIdempotent == tag.n = 2 => tag.twice = tag.once

\* C16 witness: tagify has been applied twice to a string it changes, one
\* holding a capital, a run of separators and a character outside the class.
C16_Witness ==
  /\ tag.n = 2
  /\ tag.in = <<"B", " ", ".">>
  /\ tag.once = <<"b", ".">>

\* The URLs a scrapePage task for entryURL asks readSite for.
PageURLs(entryURL) ==
  LET page == SitePage(entryURL, env.nCats)
  IN  {entryURL} \cup
        {rel(page.variants[i], entryURL) : i \in 1..Len(page.variants)}

\* C17 as stated: within one phase each URL is fetched at most once: no two
\* scrapeCategory tasks GET the same page URL and no two scrapePage tasks GET
\* the same entry or variant URL, also when two categories list one entry.
C17_EachURLFetchedOnce == \A x \in DOMAIN gets : gets[x] <= 1

\* C17 amended: there is at most one scrapeCategory task per page URL and at
\* most one scrapePage task per category and entry URL; a URL is fetched in a
\* phase at most once for each task of that phase that is given it, so an
\* entry listed by several categories is fetched once for each of them.
C17_FetchedOncePerListing ==
  /\ \A t, u \in TasksOf("category") :
       t # u => tasks[t].target # tasks[u].target
  /\ \A t, u \in TasksOf("page") :
       t # u => <<tasks[t].category, tasks[t].target>>
                  # <<tasks[u].category, tasks[u].target>>
  /\ \A x \in DOMAIN gets :
       CASE x.by = "run" -> gets[x] = 1
         [] x.by = "category" -> gets[x] = 1
         [] OTHER ->
              gets[x] <= Cardinality({t \in TasksOf("page") :
                                        x.url \in PageURLs(tasks[t].target)})

\* C17 witness: the entry listed by categories 1 and 2 has been fetched twice
\* by scrapePage tasks, once for each category.
C17_Witness ==
  /\ [url |-> E42, by |-> "page"] \in DOMAIN gets
  /\ gets[[url |-> E42, by |-> "page"]] = 2
  /\ \E t, u \in TasksOf("page") :
       /\ tasks[t].target = E42 /\ tasks[u].target = E42
       /\ tasks[t].category # tasks[u].category
       /\ tasks[t].st = "done" /\ tasks[u].st = "done"

\* The page URLs of the chain that starts at url.
RECURSIVE ChainPages(_, _, _)
ChainPages(url, n, fuel) ==
  LET page == SitePage(url, n)
  IN  IF page.next = NoLink \/ fuel = 0 THEN {url}
      ELSE {url} \cup ChainPages(rel(page.next, url), n, fuel - 1)

AllChainPages ==
  UNION {ChainPages(c.url, env.nCats, Cardinality(AllURLs)) :
           c \in SiteLabels(env.nCats)}

\* Pagination is over: every page of every chain was given to exactly one
\* scrapeCategory task, which asked for it once and is done, and there is no
\* other scrapeCategory task, none added from a page without a next link.
PaginationComplete ==
  /\ run.pc # "index"
  /\ \A t \in TasksOf("category") :
       /\ tasks[t].st = "done"
       /\ tasks[t].target \in AllChainPages
  /\ \A url \in AllChainPages :
       /\ Cardinality({t \in TasksOf("category") : tasks[t].target = url}) = 1
       /\ LET get == [url |-> url, by |-> "category"]
          IN  IF get \in DOMAIN gets THEN gets[get] = 1 ELSE argv.cacheFolder

\* C18: when every fetch returns its page, pagination comes to rest: from some
\* moment on every page of every chain has been fetched exactly once and no
\* scrapeCategory task is pending or in flight.
C18_PaginationQuiesces == <>[](failures > 0 \/ PaginationComplete)

\* C18 witness: without any failure, pagination is over on a site of two
\* categories or more, the second page of category 1 included.
C18_Witness ==
  /\ failures = 0
  /\ env.nCats >= 2
  /\ PaginationComplete
  /\ \E t \in TasksOf("category") :
       tasks[t].target = <<"cat", "1b">> /\ tasks[t].st = "done"

\* C19: scrapePage reads the existing record, merges and writes within one
\* handler, with no suspension between them, so whatever the interleaving of
\* the tasks that target one id, no contribution is lost: the record's tags
\* hold the normalized tags of every finished task that had media.
C19_NoTagLostUnderInterleaving ==
  \A t \in TasksOf("page") :
    (tasks[t].st = "done" /\ HasMedia(tasks[t].media)) =>
      /\ EntryId(tasks[t].target) \in DOMAIN searchData
      /\ Range(NewTags(tasks[t].tkind, categories[tasks[t].category].label))
           \subseteq Range(searchData[EntryId(tasks[t].target)].tags)

\* C19 witness: two scrapePage tasks for the same id, under different
\* categories, overlap: the one added later is done and has written the
\* record while the one started before it still awaits its page.
C19_Witness ==
  \E t, u \in TasksOf("page") :
    /\ u < t
    /\ EntryId(tasks[t].target) = EntryId(tasks[u].target)
    /\ tasks[t].category # tasks[u].category
    /\ tasks[u].st = "fetch"
    /\ tasks[t].st = "done" /\ HasMedia(tasks[t].media)
    /\ EntryId(tasks[t].target) \in DOMAIN searchData

\* The result URLs of the chain that starts at url, page after page, up to
\* the page stop (not included) or to the end of the chain.
RECURSIVE ChainSeq(_, _, _, _)
ChainSeq(url, stop, n, fuel) ==
  LET page == SitePage(url, n)
      here == [i \in 1..Len(page.results) |-> rel(page.results[i], url)]
  IN  IF url = stop THEN <<>>
      ELSE IF page.next = NoLink \/ fuel = 0 THEN here
           ELSE here \o ChainSeq(rel(page.next, url), stop, n, fuel - 1)

IsPrefix(s, t) == Len(s) <= Len(t) /\ SubSeq(t, 1, Len(s)) = s

\* C20: each category has at most one scrapeCategory task pending or in
\* flight; the task of a page exists only once the links of every page before
\* it in the chain have been processed; and the links are processed, hence
\* appended, in the order of the pages of the chain.
C20_OnePaginationTaskPerCategory ==
  \A i \in 1..Len(categories) :
    LET mine == {t \in TasksOf("category") : tasks[t].category = i}
        fuel == Cardinality(AllURLs)
    IN  /\ Cardinality({t \in mine : tasks[t].st \notin Finished}) <= 1
        /\ \A t \in mine :
             IsPrefix(ChainSeq(categories[i].url, tasks[t].target,
                               env.nCats, fuel),
                      seen[i])
        /\ IsPrefix(seen[i],
                    ChainSeq(categories[i].url, <<>>, env.nCats, fuel))

\* C20 witness: the task of the second page of category 1 awaits its page;
\* the three links of the first page have been processed and two URLs
\* appended, while the task of another category is in flight too.
C20_Witness ==
  /\ Len(categories) >= 2
  /\ Len(seen[1]) = 3 /\ Len(categoryEntryURLs[1]) = 2
  /\ \E t, u \in TasksOf("category") :
       /\ tasks[t].category = 1 /\ tasks[t].target = <<"cat", "1b">>
       /\ tasks[t].st = "fetch"
       /\ tasks[u].category = 2 /\ tasks[u].st = "fetch"

====
